---------------------------- MODULE Spec2Model ----------------------------
(***************************************************************************)
(* A model of the transaction-admission and block-synchronisation core of *)
(* CITA:                                                                   *)
(*   - cita-chain/src/forward.rs    Forward (the chain forwarder)          *)
(*   - cita-auth/src/verifier.rs    Verifier (hash window + tx verifier)   *)
(*   - cita-jsonrpc/src/main.rs     the new-tx batcher (dispatch thread)   *)
(*                                                                         *)
(* Option<T> is modelled as a sequence of length at most one: <<>> is None *)
(* and <<v>> is Some(v).                                                   *)
(***************************************************************************)
EXTENDS Integers, Sequences, FiniteSets, TLC

(***************************************************************************)
(* Bounds of the model.                                                    *)
(***************************************************************************)
\* how many heights above the start height blocks may carry
MaxAdvance == 2
\* width of the machine word the heights are kept in (u64 / usize, scaled)
WordBits == 5
\* util::BLOCKLIMIT, the width of the hash window (100 in the build), scaled
BLOCKLIMIT == 3
\* the highest height a BlockTxHashes message may carry
MaxHashHeight == 5
\* verfiy_tx: the longest nonce accepted
MaxNonceLen == 128
\* how many requests the front-end hands to the batcher in a run
MaxRequests == 3
\* how far the wall clock runs, in (scaled) nanoseconds
MaxTime == 4
\* nanoseconds in a second (Duration::subsec_nanos; 10^9 in the build), scaled
NanosPerSec == 3
\* the height the chain has stored when the hash window catches up with it
MaxGapHeight == 3
\* the requests on other topics that can wait in the relay channel at once
MaxRelay == 1
\* the messages that can wait for the pubsub thread at once
MaxPub == 1
\* the filters a run installs
MaxFilters == 1
\* the ExecutedResults a run hands to the block processor
MaxResults == 1
\* the heights one SyncRequest asks for
MaxSyncLen == 2

\* ::std::u64::MAX, the height of a proof-only pseudo block
U64_MAX == 2^WordBits - 1
\* ::std::usize::MAX (usize is as wide as u64 on the build targets)
USIZE_MAX == 2^WordBits - 1

None == <<>>
Some(v) == <<v>>

VARIABLES
    \* ---- cita-chain: Chain as Forward sees it
    chain_proof_type,   \* Chain::get_chain_prooftype()
    max_store_height,   \* Chain.max_store_height (AtomicUsize)
    max_height,         \* Chain.max_height, advanced by the executor
    current_height,     \* Chain::get_current_height()
    block_map,          \* Chain.block_map : height -> BlockInQueue
    current_proof,      \* Chain::current_block_poof()
    block_bodies,       \* heights whose body set_block_body has written
    ctx_pub,            \* what the last handler sent on ctx_pub
    pc,                 \* position of the dispatching thread
    panicked,           \* the dispatching thread has panicked
    last,               \* the branch the last handler took
    start_height,       \* the height the node started at
    cons_trace,         \* the run so far, while it is BlockWithProof only
    enq_hist,           \* the last block enqueued by consensus; a sync block since?
    \* ---- cita-auth: Verifier
    inited,             \* Verifier.inited
    height_latest,      \* Verifier.height_latest : Option<u64>
    height_low,         \* Verifier.height_low : Option<u64>
    hashes,             \* Verifier.hashes : height -> set of tx hashes
    tx_pub,             \* what the last update_hashes sent on tx_pub
    resp,               \* the VerifyTxResp of the last verfiy_tx
    auth_last,          \* the last call the auth thread made, and the entry it found
    until_result,       \* the last verify_valid_until_block call and its outcome
    \* ---- cita-jsonrpc: the dispatch thread (new-tx batcher)
    rx_relay,               \* the relay channel: (topic, request) not yet received
    new_tx_request_buffer,  \* the buffered new-tx requests
    time_stamp,             \* the time of the last flush
    now,                    \* SystemTime::now()
    mq_pub,                 \* everything sent on tx_pub so far: (topic, requests)
    next_id,                \* the number of the next request the front-end hands over
    count_per_batch,        \* NewTxFlowConfig.count_per_batch
    buffer_duration,        \* NewTxFlowConfig.buffer_duration (nanoseconds)
    \* ---- the bus between cita-auth and cita-chain
    req_chan,           \* heights of the BlockTxHashesReq in flight (auth to chain)
    hashes_chan,        \* heights of the BlockTxHashes in flight (chain to auth)
    \* ---- cita-chain: the read path of Forward
    msg_in,             \* the bytes dispatch_msg was last called with
    filters,            \* Chain: the ids of the installed filters
    next_filter_id,     \* Chain: the id the next filter gets
    write_chan          \* the ExecutedResults sent on write_sender

chain_vars == <<chain_proof_type, max_store_height, max_height, current_height,
                block_map, current_proof, block_bodies, ctx_pub, pc, panicked,
                last, start_height, cons_trace, enq_hist>>

auth_vars == <<inited, height_latest, height_low, hashes, tx_pub, resp, auth_last,
               until_result>>

batch_vars == <<rx_relay, new_tx_request_buffer, time_stamp, now, mq_pub, next_id,
                count_per_batch, buffer_duration>>

bus_vars == <<req_chan, hashes_chan>>

read_vars == <<msg_in, filters, next_filter_id, write_chan>>

vars == <<chain_vars, auth_vars, batch_vars, bus_vars, read_vars>>

(***************************************************************************)
(* Messages                                                                *)
(***************************************************************************)
ProofTypes == {"Tendermint", "Raft"}

\* heights a block of this run may carry
Heights == start_height .. (start_height + MaxAdvance)

\* a block header's proof: TendermintProof.height
ProofOf(ph) == [height |-> ph]

\* blocks a peer may put in a SyncResponse: Tendermint blocks of any height
\* with a proof of any height, and for each height a block of the other proof
\* type and blocks whose transactions root is wrong
SyncBlocks ==
    [height : Heights \cup {U64_MAX},
     proof : {ProofOf(ph) : ph \in Heights \cup {USIZE_MAX}},
     proof_type : {"Tendermint"},
     hash_ok : {TRUE}]
    \cup
    [height : Heights \cup {U64_MAX},
     proof : {ProofOf(USIZE_MAX)},
     proof_type : {"Raft"},
     hash_ok : {TRUE}]
    \cup
    [height : Heights \cup {U64_MAX},
     proof : {ProofOf(USIZE_MAX)},
     proof_type : ProofTypes,
     hash_ok : {FALSE}]

\* blocks the consensus module hands over, each with the proof of its own height
ConsensusBlocks ==
    {[blk |-> [height |-> h, proof |-> ProofOf(IF h = 0 THEN USIZE_MAX ELSE h - 1),
               proof_type |-> chain_proof_type, hash_ok |-> TRUE],
      proof |-> ProofOf(h)] : h \in Heights}

(***************************************************************************)
(* Chain collaborators (core::libchain::chain, not part of the sources)    *)
(***************************************************************************)
\* Chain::set_block_body: the body of `height` is written to the store
set_block_body(bodies, height) == bodies \cup {height}

\* Chain::delivery_block_tx_hashes: a BlockTxHashes notification for `height`
\* is sent on ctx_pub. body_stored and store_height record what the store held
\* at the moment of the send.
delivery_block_tx_hashes(pub, height, bodies, msh) ==
    Append(pub, [topic |-> "chain.txhashes", height |-> height,
                 body_stored |-> height \in bodies, store_height |-> msh])

(***************************************************************************)
(* Forward::consensus_block_enqueue                                        *)
(***************************************************************************)
\* the chain state the handlers write, as one record
ChainState ==
    [map |-> block_map, proof |-> current_proof, bodies |-> block_bodies,
     msh |-> max_store_height, pub |-> <<>>, log |-> "none", panic |-> FALSE]

\* usize addition
AddUsize(a, b) == (a + b) % (USIZE_MAX + 1)

\* consensus_block_enqueue taking every block that is not below the stored height
consensus_block_enqueue_unordered(cs, proof_blk) ==
    LET current == cs.msh
        block == proof_blk.blk
        proof == proof_blk.proof
        blk_height == block.height
    IN  IF blk_height >= current
        THEN LET map1 == (blk_height :> [kind |-> "ConsensusBlock", block |-> block.height,
                                          proof |-> Some(proof)]) @@ cs.map
                 bodies1 == set_block_body(cs.bodies, blk_height)
                 msh1 == blk_height
             IN  [cs EXCEPT !.map = map1,
                            !.proof = Some(proof),
                            !.bodies = bodies1,
                            !.msh = msh1,
                            !.pub = delivery_block_tx_hashes(cs.pub, blk_height, bodies1, msh1),
                            !.log = "enqueued"]
        ELSE [cs EXCEPT !.log = "ignored"]

consensus_block_enqueue(cs, proof_blk) ==
    LET current == cs.msh
        block == proof_blk.blk
        proof == proof_blk.proof
        blk_height == block.height
    IN  IF blk_height = AddUsize(current, 1)
        THEN LET map1 == (blk_height :> [kind |-> "ConsensusBlock", block |-> block.height,
                                          proof |-> Some(proof)]) @@ cs.map
                 bodies1 == set_block_body(cs.bodies, blk_height)
                 msh1 == blk_height
             IN  [cs EXCEPT !.map = map1,
                            !.proof = Some(proof),
                            !.bodies = bodies1,
                            !.msh = msh1,
                            !.pub = delivery_block_tx_hashes(cs.pub, blk_height, bodies1, msh1),
                            !.log = "enqueued"]
        ELSE [cs EXCEPT !.log = "ignored"]

(***************************************************************************)
(* Forward::add_sync_block                                                 *)
(***************************************************************************)
\* a fill that does not look at what the entry holds
SetPrevProof_always(map, proof_height, proof) ==
    IF proof_height \in DOMAIN map
    THEN [map EXCEPT ![proof_height].proof = Some(proof)]
    ELSE map

\* SetPrevProof that makes an entry where the queue has none
SetPrevProof_insert(map, proof_height, proof) ==
    IF proof_height \in DOMAIN map
    THEN IF map[proof_height].kind = "SyncBlock" /\ map[proof_height].proof = None
         THEN [map EXCEPT ![proof_height].proof = Some(proof)]
         ELSE map
    ELSE (proof_height :> [kind |-> "SyncBlock", block |-> proof_height,
                           proof |-> Some(proof)]) @@ map

\* fill the proof slot of a SyncBlock(_, None) entry at proof_height
SetPrevProof(map, proof_height, proof) ==
    IF /\ proof_height \in DOMAIN map
       /\ map[proof_height].kind = "SyncBlock"
       /\ map[proof_height].proof = None
    THEN [map EXCEPT ![proof_height].proof = Some(proof)]
    ELSE map

\* add_sync_block sending the notification before the body is written
add_sync_block_notify_first(cs, block) ==
    LET blk_height == block.height
        chain_max_height == max_height
        chain_max_store_height == cs.msh
        proof_height == IF block.proof.height = USIZE_MAX THEN 0 ELSE block.proof.height
    IN  IF chain_proof_type # block.proof_type
        THEN [cs EXCEPT !.log = "proof_type mismatch"]
        ELSE IF block.proof_type # "Tendermint"
        THEN [cs EXCEPT !.log = "unimplemented", !.panic = TRUE]
        ELSE IF blk_height # USIZE_MAX
        THEN IF proof_height = chain_max_height \/ proof_height = chain_max_store_height
             THEN LET map1 == SetPrevProof(cs.map, proof_height, block.proof)
                      pub1 == delivery_block_tx_hashes(cs.pub, blk_height, cs.bodies, cs.msh)
                      bodies1 == set_block_body(cs.bodies, blk_height)
                      msh1 == blk_height
                      map2 == (blk_height :> [kind |-> "SyncBlock", block |-> block.height,
                                               proof |-> None]) @@ map1
                  IN  [cs EXCEPT !.map = map2, !.bodies = bodies1, !.msh = msh1,
                                 !.pub = pub1, !.log = "sync inserted"]
             ELSE [cs EXCEPT !.log = "not continious"]
        ELSE IF proof_height > current_height
        THEN [cs EXCEPT !.map = SetPrevProof(cs.map, proof_height, block.proof),
                        !.log = "proof only"]
        ELSE [cs EXCEPT !.log = "stale proof"]

\* add_sync_block without the comparison of the proof types
add_sync_block_unchecked(cs, block) ==
    LET blk_height == block.height
        chain_max_height == max_height
        chain_max_store_height == cs.msh
        proof_height == IF block.proof.height = USIZE_MAX THEN 0 ELSE block.proof.height
    IN  IF block.proof_type # "Tendermint"
        THEN [cs EXCEPT !.log = "unimplemented", !.panic = TRUE]
        ELSE IF blk_height # USIZE_MAX
        THEN IF proof_height = chain_max_height \/ proof_height = chain_max_store_height
             THEN LET map1 == SetPrevProof(cs.map, proof_height, block.proof)
                      bodies1 == set_block_body(cs.bodies, blk_height)
                      msh1 == blk_height
                      pub1 == delivery_block_tx_hashes(cs.pub, blk_height, bodies1, msh1)
                      map2 == (blk_height :> [kind |-> "SyncBlock", block |-> block.height,
                                               proof |-> None]) @@ map1
                  IN  [cs EXCEPT !.map = map2, !.bodies = bodies1, !.msh = msh1,
                                 !.pub = pub1, !.log = "sync inserted"]
             ELSE [cs EXCEPT !.log = "not continious"]
        ELSE IF proof_height > current_height
        THEN [cs EXCEPT !.map = SetPrevProof(cs.map, proof_height, block.proof),
                        !.log = "proof only"]
        ELSE [cs EXCEPT !.log = "stale proof"]

add_sync_block(cs, block) ==
    LET blk_height == block.height
        chain_max_height == max_height
        chain_max_store_height == cs.msh
        proof_height == IF block.proof.height = USIZE_MAX THEN 0 ELSE block.proof.height
    IN  IF chain_proof_type # block.proof_type
        THEN [cs EXCEPT !.log = "proof_type mismatch"]
        ELSE IF block.proof_type # "Tendermint"
        THEN [cs EXCEPT !.log = "unimplemented", !.panic = TRUE]
        ELSE IF blk_height # USIZE_MAX
        THEN IF proof_height = chain_max_height \/ proof_height = chain_max_store_height
             THEN LET map1 == SetPrevProof(cs.map, proof_height, block.proof)
                      bodies1 == set_block_body(cs.bodies, blk_height)
                      msh1 == blk_height
                      pub1 == delivery_block_tx_hashes(cs.pub, blk_height, bodies1, msh1)
                      map2 == (blk_height :> [kind |-> "SyncBlock", block |-> block.height,
                                               proof |-> None]) @@ map1
                  IN  [cs EXCEPT !.map = map2, !.bodies = bodies1, !.msh = msh1,
                                 !.pub = pub1, !.log = "sync inserted"]
             ELSE [cs EXCEPT !.log = "not continious"]
        ELSE IF proof_height > current_height
        THEN [cs EXCEPT !.map = SetPrevProof(cs.map, proof_height, block.proof),
                        !.log = "proof only"]
        ELSE [cs EXCEPT !.log = "stale proof"]

(***************************************************************************)
(* Forward::deal_sync_blocks: one turn of its loop                         *)
(***************************************************************************)
\* "continue" | "break" | "add"
deal_sync_blocks_turn(block) ==
    IF block.height < max_height THEN "continue"
    ELSE IF block.height # U64_MAX /\ ~block.hash_ok THEN "break"
    ELSE "add"

(***************************************************************************)
(* Actions                                                                 *)
(***************************************************************************)
Commit(cs) ==
    /\ block_map' = cs.map
    /\ current_proof' = cs.proof
    /\ block_bodies' = cs.bodies
    /\ max_store_height' = cs.msh
    /\ ctx_pub' = cs.pub
    /\ panicked' = cs.panic

\* dispatch_msg: MsgClass::BlockWithProof
BlockWithProofStep(proof_blk) ==
    LET cs == consensus_block_enqueue(ChainState, proof_blk)
    IN  /\ pc = "recv" /\ ~panicked
        /\ Commit(cs)
        /\ last' = [op |-> "BlockWithProof", height |-> proof_blk.blk.height,
                    log |-> cs.log]
        /\ enq_hist' = IF cs.log = "enqueued"
                       THEN [height |-> Some(proof_blk.blk.height), synced |-> FALSE]
                       ELSE enq_hist
        /\ cons_trace' = IF cons_trace # None /\ Len(cons_trace[1]) < 2
                         THEN Some(Append(cons_trace[1],
                                [height |-> proof_blk.blk.height, pub |-> cs.pub]))
                         ELSE None
        /\ UNCHANGED <<chain_proof_type, max_height, current_height, pc, start_height>>
        /\ UNCHANGED <<auth_vars, batch_vars, bus_vars, read_vars>>

DispatchBlockWithProof == \E proof_blk \in ConsensusBlocks : BlockWithProofStep(proof_blk)

\* dispatch_msg: MsgClass::SyncResponse, deal_sync_blocks is entered
DispatchSyncResponse ==
    /\ pc = "recv" /\ ~panicked
    /\ pc' = "deal_sync_blocks"
    /\ ctx_pub' = <<>>
    /\ last' = [op |-> "SyncResponse", height |-> 0, log |-> "begin"]
    /\ cons_trace' = None
    /\ UNCHANGED <<chain_proof_type, max_store_height, max_height, current_height,
                   block_map, current_proof, block_bodies, panicked, start_height,
                   enq_hist>>
    /\ UNCHANGED <<auth_vars, batch_vars, bus_vars, read_vars>>

\* deal_sync_blocks: the loop takes the next block of the response
DealSyncBlockStep(block) ==
    LET turn == deal_sync_blocks_turn(block)
        cs == IF turn = "add" THEN add_sync_block(ChainState, block)
              ELSE [ChainState EXCEPT !.log = turn]
    IN  /\ pc = "deal_sync_blocks" /\ ~panicked
        /\ Commit(cs)
        /\ pc' = IF turn = "break" \/ cs.panic THEN "recv" ELSE pc
        /\ last' = [op |-> "SyncBlock", height |-> block.height, log |-> cs.log]
        /\ enq_hist' = IF cs.log = "sync inserted"
                       THEN [enq_hist EXCEPT !.synced = TRUE]
                       ELSE enq_hist
        /\ UNCHANGED <<chain_proof_type, max_height, current_height, start_height,
                       cons_trace>>
        /\ UNCHANGED <<auth_vars, batch_vars, bus_vars, read_vars>>

DealSyncBlock == \E block \in SyncBlocks : DealSyncBlockStep(block)

\* deal_sync_blocks: the response has no more blocks
DealSyncBlocksEnd ==
    /\ pc = "deal_sync_blocks" /\ ~panicked
    /\ pc' = "recv"
    /\ ctx_pub' = <<>>
    /\ last' = [op |-> "SyncResponse", height |-> 0, log |-> "end"]
    /\ UNCHANGED <<chain_proof_type, max_store_height, max_height, current_height,
                   block_map, current_proof, block_bodies, panicked, start_height,
                   cons_trace, enq_hist>>
    /\ UNCHANGED <<auth_vars, batch_vars, bus_vars, read_vars>>

\* the executor executes the next block, once that block has been stored
\* (another thread)
ExecutorAdvance ==
    /\ ~panicked
    /\ (max_height + 1) \in block_bodies
    /\ max_height' = max_height + 1
    /\ current_height' = max_height + 1
    /\ cons_trace' = None
    /\ UNCHANGED <<chain_proof_type, max_store_height, block_map, current_proof,
                   block_bodies, ctx_pub, pc, panicked, last, start_height, enq_hist>>
    /\ UNCHANGED <<auth_vars, batch_vars, bus_vars, read_vars>>


(***************************************************************************)
(* cita-auth: Verifier                                                     *)
(***************************************************************************)
\* the Verifier as one record
VerifierState ==
    [inited |-> inited, height_latest |-> height_latest, height_low |-> height_low,
     hashes |-> hashes, tx_pub |-> <<>>]

\* a request loop that also asks for `high`
send_txhashs_req_inclusive(low, high, pub) ==
    pub \o [i \in 1 .. (IF high >= low THEN high - low + 1 ELSE 0) |->
                [topic |-> "auth.blk_tx_hashs_req", height |-> low + i - 1]]

\* Verifier::send_txhashs_req: one BlockTxHashesReq for each height of low..high
RECURSIVE send_txhashs_req(_, _, _)
send_txhashs_req(low, high, pub) ==
    IF low >= high THEN pub
    ELSE send_txhashs_req(low + 1, high,
            Append(pub, [topic |-> "auth.blk_tx_hashs_req", height |-> low]))

\* a window one height too wide
WindowLow_wide(h) == IF h < BLOCKLIMIT THEN 0 ELSE h - BLOCKLIMIT

\* the low end of the window whose high end is h
WindowLow(h) == IF h < BLOCKLIMIT THEN 0 ELSE h - BLOCKLIMIT + 1

\* a forward step that forgets to evict
RemoveRange_none(map, from, to) == map

\* an eviction that takes one height too many
RemoveRange_inclusive(map, from, to) ==
    [k \in {j \in DOMAIN map : ~(from <= j /\ j <= to)} |-> map[k]]

\* self.hashes.remove(&i) for i in from..to
RemoveRange(map, from, to) ==
    [k \in {j \in DOMAIN map : ~(from <= j /\ j < to)} |-> map[k]]

\* inited assigned from a comparison that is off by one
InsertAndCheck_assign(v, h, set) ==
    LET hashes1 == (h :> set) @@ v.hashes
    IN  [v EXCEPT !.hashes = hashes1,
                  !.inited = (Cardinality(DOMAIN hashes1)
                                  = v.height_latest[1] - v.height_low[1])]

\* inited set as soon as anything is retained
InsertAndCheck_eager(v, h, set) ==
    LET hashes1 == (h :> set) @@ v.hashes
    IN  [v EXCEPT !.hashes = hashes1, !.inited = TRUE]

\* the end of update_hashes: insert, then set inited when the window is full
InsertAndCheck(v, h, set) ==
    LET hashes1 == (h :> set) @@ v.hashes
    IN  [v EXCEPT !.hashes = hashes1,
                  !.inited = IF Cardinality(DOMAIN hashes1)
                                  = v.height_latest[1] - v.height_low[1] + 1
                             THEN TRUE ELSE v.inited]

\* update_hashes that, ahead of the window, asks for the gap but not for h
update_hashes_gap_only(v, h, set) ==
    IF v.height_latest = None /\ v.height_low = None
    THEN LET v1 == [v EXCEPT !.height_latest = Some(h),
                             !.height_low = Some(WindowLow(h)),
                             !.tx_pub = send_txhashs_req(WindowLow(h), h, v.tx_pub)]
         IN  InsertAndCheck(v1, h, set)
    ELSE LET latest == v.height_latest[1]
             latest_low == v.height_low[1]
         IN  IF h = latest + 1
             THEN LET v1 == [v EXCEPT !.height_latest = Some(h),
                                      !.height_low = Some(WindowLow(h)),
                                      !.hashes = RemoveRange(v.hashes, latest_low,
                                                             WindowLow(h))]
                  IN  IF h < v1.height_low[1] THEN v1 ELSE InsertAndCheck(v1, h, set)
             ELSE IF h > latest + 1
             THEN [v EXCEPT !.tx_pub = send_txhashs_req(latest + 1, h, v.tx_pub)]
             ELSE IF h < v.height_low[1] THEN v
             ELSE InsertAndCheck(v, h, set)

update_hashes(v, h, set) ==
    IF v.height_latest = None /\ v.height_low = None
    THEN LET v1 == [v EXCEPT !.height_latest = Some(h),
                             !.height_low = Some(WindowLow(h)),
                             !.tx_pub = send_txhashs_req(WindowLow(h), h, v.tx_pub)]
         IN  InsertAndCheck(v1, h, set)
    ELSE LET latest == v.height_latest[1]
             latest_low == v.height_low[1]
         IN  IF h = latest + 1
             THEN LET v1 == [v EXCEPT !.height_latest = Some(h),
                                      !.height_low = Some(WindowLow(h)),
                                      !.hashes = RemoveRange(v.hashes, latest_low,
                                                             WindowLow(h))]
                  IN  IF h < v1.height_low[1] THEN v1 ELSE InsertAndCheck(v1, h, set)
             ELSE IF h > latest + 1
             THEN [v EXCEPT !.tx_pub = send_txhashs_req(latest + 1, h + 1, v.tx_pub)]
             ELSE IF h < v.height_low[1] THEN v
             ELSE InsertAndCheck(v, h, set)

\* check_hash_exist without the answer for a window that is not inited
check_hash_exist_cold(v, hash) ==
    \E height \in DOMAIN v.hashes : hash \in v.hashes[height]

\* Verifier::check_hash_exist
check_hash_exist(v, hash) ==
    IF ~v.inited THEN TRUE
    ELSE \E height \in DOMAIN v.hashes : hash \in v.hashes[height]

\* Signature::recover: the key a signature recovers to, if any
Recover(sig) == sig.recover

\* Verifier::verify_sig: Ok(pubkey) is Some(pubkey), Err(()) is None
verify_sig(req) ==
    IF ~req.signature.len_ok THEN None
    ELSE IF req.crypto = "SECP" THEN Recover(req.signature)
    ELSE None

\* verfiy_tx checking the signature before the hash window
verfiy_tx_sig_first(v, req) ==
    LET resp0 == [tx_hash |-> req.tx_hash, ret |-> "OK", signer |-> <<>>]
        ret == verify_sig(req)
    IN  IF req.nonce_len > MaxNonceLen
        THEN [resp0 EXCEPT !.ret = "InvalidNonce"]
        ELSE IF ret = None THEN [resp0 EXCEPT !.ret = "BadSig"]
        ELSE IF check_hash_exist(v, req.tx_hash)
        THEN IF v.inited THEN [resp0 EXCEPT !.ret = "Dup"]
             ELSE [resp0 EXCEPT !.ret = "NotReady"]
        ELSE IF req.signer # <<>> /\ req.signer # ret
        THEN [resp0 EXCEPT !.ret = "BadSig"]
        ELSE [resp0 EXCEPT !.signer = ret, !.ret = "OK"]

\* Verifier::verfiy_tx
verfiy_tx(v, req) ==
    LET resp0 == [tx_hash |-> req.tx_hash, ret |-> "OK", signer |-> <<>>]
    IN  IF req.nonce_len > MaxNonceLen
        THEN [resp0 EXCEPT !.ret = "InvalidNonce"]
        ELSE IF check_hash_exist(v, req.tx_hash)
        THEN IF v.inited THEN [resp0 EXCEPT !.ret = "Dup"]
             ELSE [resp0 EXCEPT !.ret = "NotReady"]
        ELSE LET ret == verify_sig(req)
             IN  IF ret = None THEN [resp0 EXCEPT !.ret = "BadSig"]
                 ELSE IF req.signer # <<>> /\ req.signer # ret
                 THEN [resp0 EXCEPT !.ret = "BadSig"]
                 ELSE [resp0 EXCEPT !.signer = ret, !.ret = "OK"]

\* ---- inputs
TxHashes == {"t1", "t2"}
PubKeys == {"k1", "k2"}
HashHeights == 0 .. MaxHashHeight
\* the tx hashes of a block, as a BlockTxHashes message carries them
HashSets == {{}, {"t1"}, {"t2"}}
Signatures == [len_ok : BOOLEAN, recover : {None, Some("k1")}]
VerifyTxReqs ==
    [tx_hash : TxHashes,
     nonce_len : {MaxNonceLen, MaxNonceLen + 1},
     signature : Signatures,
     crypto : {"SECP", "SM2"},
     signer : {<<>>} \cup {Some(k) : k \in PubKeys}]

\* a BlockTxHashes message reaches the auth thread
UpdateHashesStep(h, set) ==
    LET v == update_hashes(VerifierState, h, set)
    IN  /\ inited' = v.inited
        /\ height_latest' = v.height_latest
        /\ height_low' = v.height_low
        /\ hashes' = v.hashes
        /\ tx_pub' = v.tx_pub
        /\ auth_last' = [op |-> "update_hashes", height |-> h,
                          found |-> IF h \in DOMAIN hashes THEN Some(hashes[h]) ELSE None]
        /\ resp' = None
        /\ UNCHANGED until_result
        /\ UNCHANGED <<chain_vars, batch_vars, bus_vars, read_vars>>

UpdateHashes == \E h \in HashHeights, set \in HashSets : UpdateHashesStep(h, set)

\* a VerifyTxReq reaches the auth thread
VerifyStep(req) ==
    /\ resp' = Some(verfiy_tx(VerifierState, req))
    /\ auth_last' = [op |-> "verfiy_tx", height |-> 0, found |-> None]
    /\ tx_pub' = <<>>
    /\ UNCHANGED <<inited, height_latest, height_low, hashes, until_result>>
    /\ UNCHANGED <<chain_vars, batch_vars, bus_vars, read_vars>>

Verify == \E req \in VerifyTxReqs : VerifyStep(req)

AuthInit ==
    /\ inited = FALSE
    /\ height_latest = None
    /\ height_low = None
    /\ hashes = <<>>
    /\ tx_pub = <<>>
    /\ resp = None
    /\ auth_last = [op |-> "new", height |-> 0, found |-> None]
    /\ until_result = None

AuthNext == UpdateHashes \/ Verify

\* u64 addition as the build does it: with overflow checks a sum that does not
\* fit panics, without them it wraps
AddU64(a, b, overflow_checks) ==
    IF a + b > U64_MAX
    THEN [value |-> (a + b) % (U64_MAX + 1), panic |-> overflow_checks]
    ELSE [value |-> a + b, panic |-> FALSE]

\* Verifier::verify_valid_until_block
verify_valid_until_block(v, valid_until_block, overflow_checks) ==
    IF v.height_latest # None
    THEN LET height == v.height_latest[1]
             limit == AddU64(height, BLOCKLIMIT, overflow_checks)
         IN  IF valid_until_block > height
             THEN [result |-> ~limit.panic /\ valid_until_block <= limit.value,
                   panic |-> limit.panic]
             ELSE [result |-> FALSE, panic |-> FALSE]
    ELSE [result |-> FALSE, panic |-> FALSE]

\* the auth thread checks a transaction's valid_until_block
VerifyUntilStep(valid_until_block, overflow_checks) ==
    /\ until_result' = Some([valid_until_block |-> valid_until_block] @@
                            verify_valid_until_block(VerifierState, valid_until_block,
                                                     overflow_checks))
    /\ UNCHANGED <<inited, height_latest, height_low, hashes, tx_pub, resp, auth_last>>
    /\ UNCHANGED <<chain_vars, batch_vars, bus_vars, read_vars>>

VerifyUntil ==
    \E valid_until_block \in 0 .. U64_MAX, overflow_checks \in BOOLEAN :
        VerifyUntilStep(valid_until_block, overflow_checks)

\* a Verifier that is new, or has had its first update_hashes(h, {}) for any h
UntilInit ==
    \/ AuthInit
    \/ \E h \in 0 .. U64_MAX :
          LET new == [inited |-> FALSE, height_latest |-> None, height_low |-> None,
                      hashes |-> <<>>, tx_pub |-> <<>>]
              v == update_hashes(new, h, {})
          IN  /\ inited = v.inited
              /\ height_latest = v.height_latest
              /\ height_low = v.height_low
              /\ hashes = v.hashes
              /\ tx_pub = v.tx_pub
              /\ resp = None
              /\ auth_last = [op |-> "update_hashes", height |-> h, found |-> None]
              /\ until_result = None

(***************************************************************************)
(* cita-jsonrpc: the dispatch thread and its new-tx batcher                *)
(***************************************************************************)
TOPIC_NEW_TX == "jsonrpc.new_tx"
TOPIC_NEW_TX_BATCH == "jsonrpc.new_tx_batch"

\* the topics the front-end hands requests over with
RelayTopics == {TOPIC_NEW_TX, "jsonrpc.request"}

\* what the dispatch thread owns, as one record
BatcherState ==
    [buffer |-> new_tx_request_buffer, time_stamp |-> time_stamp, pub |-> mq_pub]

\* time_stamp.elapsed().unwrap(): the Duration since time_stamp
Elapsed(b, t) == t - b.time_stamp

\* Duration::subsec_nanos: the fractional part of a Duration, in nanoseconds
SubsecNanos(d) == d % NanosPerSec

\* batch_forward_new_tx that keeps the requests it has sent
batch_forward_new_tx_keep(b, t) ==
    [b EXCEPT !.pub = Append(b.pub, [topic |-> TOPIC_NEW_TX_BATCH, reqs |-> b.buffer]),
              !.time_stamp = t]

\* batch_forward_new_tx: the buffer goes out as one BatchRequest
batch_forward_new_tx(b, t) ==
    [b EXCEPT !.pub = Append(b.pub, [topic |-> TOPIC_NEW_TX_BATCH, reqs |-> b.buffer]),
              !.time_stamp = t,
              !.buffer = <<>>]

\* forward_service that lets the buffer grow one request further before it
\* flushes
forward_service_late(b, topic, req, t, count, duration) ==
    IF topic # TOPIC_NEW_TX
    THEN [b EXCEPT !.pub = Append(b.pub, [topic |-> topic, reqs |-> <<req>>])]
    ELSE LET b1 == [b EXCEPT !.buffer = Append(b.buffer, req)]
         IN  IF \/ Len(b1.buffer) > count + 1
                \/ SubsecNanos(Elapsed(b1, t)) > duration
             THEN batch_forward_new_tx(b1, t)
             ELSE b1

\* forward_service: t is the reading of the clock while it runs
forward_service(b, topic, req, t, count, duration) ==
    IF topic # TOPIC_NEW_TX
    THEN [b EXCEPT !.pub = Append(b.pub, [topic |-> topic, reqs |-> <<req>>])]
    ELSE LET b1 == [b EXCEPT !.buffer = Append(b.buffer, req)]
         IN  IF \/ Len(b1.buffer) > count
                \/ SubsecNanos(Elapsed(b1, t)) > duration
             THEN batch_forward_new_tx(b1, t)
             ELSE b1

CommitBatcher(b) ==
    /\ new_tx_request_buffer' = b.buffer
    /\ time_stamp' = b.time_stamp
    /\ mq_pub' = b.pub

\* a front-end worker hands a request to the dispatch thread (tx_relay.send)
SubmitStep(topic) ==
    /\ next_id <= MaxRequests
    /\ rx_relay' = Append(rx_relay, [topic |-> topic, req |-> next_id])
    /\ next_id' = next_id + 1
    /\ UNCHANGED <<new_tx_request_buffer, time_stamp, now, mq_pub, count_per_batch,
                   buffer_duration>>
    /\ UNCHANGED <<chain_vars, auth_vars, bus_vars, read_vars>>

Submit == \E topic \in RelayTopics : SubmitStep(topic)

\* the dispatch loop: rx_relay.try_recv() is Ok
DispatchRecv ==
    /\ rx_relay # <<>>
    /\ rx_relay' = Tail(rx_relay)
    /\ CommitBatcher(forward_service(BatcherState, Head(rx_relay).topic,
                                     Head(rx_relay).req, now, count_per_batch,
                                     buffer_duration))
    /\ UNCHANGED <<now, next_id, count_per_batch, buffer_duration>>
    /\ UNCHANGED <<chain_vars, auth_vars, bus_vars, read_vars>>

\* an idle iteration that sleeps without flushing
DispatchIdle_sleep ==
    /\ rx_relay = <<>>
    /\ new_tx_request_buffer # <<>>
    /\ UNCHANGED vars

\* the dispatch loop: the channel is empty, a non-empty buffer is flushed
\* before the thread sleeps
DispatchIdle ==
    /\ rx_relay = <<>>
    /\ new_tx_request_buffer # <<>>
    /\ CommitBatcher(batch_forward_new_tx(BatcherState, now))
    /\ UNCHANGED <<rx_relay, now, next_id, count_per_batch, buffer_duration>>
    /\ UNCHANGED <<chain_vars, auth_vars, bus_vars, read_vars>>

\* the clock advances
Tick ==
    /\ now < MaxTime
    /\ now' = now + 1
    /\ UNCHANGED <<rx_relay, new_tx_request_buffer, time_stamp, mq_pub, next_id,
                   count_per_batch, buffer_duration>>
    /\ UNCHANGED <<chain_vars, auth_vars, bus_vars, read_vars>>

\* the state when the dispatch thread is spawned
BatchInitAt(count, duration) ==
    /\ rx_relay = <<>>
    /\ new_tx_request_buffer = <<>>
    /\ time_stamp = 0
    /\ now = 0
    /\ mq_pub = <<>>
    /\ next_id = 1
    /\ count_per_batch = count
    /\ buffer_duration = duration

\* the configurations of the batcher
BatchInit == \E count \in 0 .. 2, duration \in 1 .. 2 : BatchInitAt(count, duration)

BatchNext == Submit \/ DispatchRecv \/ DispatchIdle \/ Tick

(***************************************************************************)
(* Gap recovery: the Verifier, the bus and Forward::deal_block_tx_req       *)
(***************************************************************************)
GapHeights == 0 .. MaxGapHeight

\* Chain::transaction_hashes(BlockId::Number(height)): the tx hashes of a stored
\* block, None for a height that is not stored
transaction_hashes(bodies, height) ==
    IF height \in bodies
    THEN Some(IF height % 2 = 0 THEN {"t1"} ELSE {"t2"})
    ELSE None

\* Forward::deal_block_tx_req: the BlockTxHashes reply, None when nothing is sent
deal_block_tx_req(bodies, block_height) ==
    IF transaction_hashes(bodies, block_height) # None
    THEN Some([height |-> block_height,
               tx_hashes |-> transaction_hashes(bodies, block_height)[1]])
    ELSE None

\* the heights pub asks for
RequestedHeights(pub) == {pub[i].height : i \in DOMAIN pub}

\* a BlockTxHashes message is delivered to the auth thread: update_hashes runs
\* and its requests go on the bus. auth_last also keeps the heights that were
\* dropped so far for being ahead of latest + 1.
DeliverStep(h) ==
    LET msg == deal_block_tx_req(block_bodies, h)[1]
        v == update_hashes(VerifierState, msg.height, msg.tx_hashes)
        dropped == IF "dropped" \in DOMAIN auth_last THEN auth_last.dropped ELSE {}
        ahead == height_latest # None /\ h > height_latest[1] + 1
    IN  /\ h \in hashes_chan
        /\ hashes_chan' = hashes_chan \ {h}
        /\ req_chan' = req_chan \cup RequestedHeights(v.tx_pub)
        /\ inited' = v.inited
        /\ height_latest' = v.height_latest
        /\ height_low' = v.height_low
        /\ hashes' = v.hashes
        /\ tx_pub' = v.tx_pub
        /\ auth_last' = [op |-> "update_hashes", height |-> h,
                          found |-> IF h \in DOMAIN hashes THEN Some(hashes[h]) ELSE None,
                          dropped |-> IF ahead THEN dropped \cup {h} ELSE dropped]
        /\ UNCHANGED <<resp, until_result>>
        /\ UNCHANGED <<chain_vars, batch_vars, read_vars>>

Deliver == \E h \in GapHeights : DeliverStep(h)

\* dispatch_msg: MsgClass::BlockTxHashesReq
ChainReplyStep(h) ==
    /\ h \in req_chan
    /\ ~panicked
    /\ req_chan' = req_chan \ {h}
    /\ hashes_chan' = IF deal_block_tx_req(block_bodies, h) # None
                      THEN hashes_chan \cup {h}
                      ELSE hashes_chan
    /\ UNCHANGED <<chain_vars, auth_vars, batch_vars, read_vars>>

ChainReply == \E h \in GapHeights : ChainReplyStep(h)

BusInit ==
    /\ req_chan = {}
    /\ hashes_chan = {}

\* the auth thread starts late: of the BlockTxHashes notifications the chain
\* sent while it stored its blocks, any may still be on their way
GapBusInit ==
    /\ req_chan = {}
    /\ hashes_chan \in SUBSET block_bodies

(***************************************************************************)
(* Forward::dispatch_msg: decoding, the read path and the sync request     *)
(***************************************************************************)
\* the bytes of a bus message: the encoding of a Message, or something else
Encode(msg) == <<"message", msg>>
Garbage == <<"garbage">>

\* Message::try_from(msg_bytes)
try_from(msg_bytes) ==
    IF msg_bytes[1] = "message" THEN Some(msg_bytes[2]) ELSE None

\* ErrorCode::query_error()
query_error == "query_error"

RequestIds == {"r1", "r2"}
Origins == {1, 2}

\* the variants of Request_oneof_req whose parameter is a JSON string
DecodedVariants == {"block_by_hash", "block_by_height", "filter", "new_filter"}
\* the variants answered from a lookup by hash
LookupVariants == {"block_by_hash", "transaction", "transaction_receipt"}
\* the variants that name a filter
FilterIdVariants == {"uninstall_filter", "filter_changes", "filter_logs"}
\* the variants with nothing the model tells apart; "other" is a variant
\* reply_request has no arm for, "unset" a Request whose oneof is empty
PlainVariants ==
    {"block_number", "call", "transaction_count", "code", "new_block_filter",
     "other", "unset"}

\* heights a peer or a client may ask for: the first block, the block
\* executed last and the one after it
AskedHeights == {0, current_height, current_height + 1}

\* request::Request: params_ok says whether the JSON parameter decodes, hit
\* whether the lookup by hash finds something, arg is the height or filter id
Requests ==
    [request_id : RequestIds, variant : DecodedVariants, params_ok : {FALSE},
     hit : {FALSE}, arg : {0}]
    \cup
    [request_id : RequestIds, variant : LookupVariants, params_ok : {TRUE},
     hit : BOOLEAN, arg : {0}]
    \cup
    [request_id : RequestIds, variant : {"block_by_height"}, params_ok : {TRUE},
     hit : {FALSE}, arg : AskedHeights]
    \cup
    [request_id : RequestIds, variant : {"filter", "new_filter"}, params_ok : {TRUE},
     hit : {FALSE}, arg : {0}]
    \cup
    [request_id : RequestIds, variant : FilterIdVariants, params_ok : {TRUE},
     hit : {FALSE}, arg : 0 .. MaxFilters]
    \cup
    [request_id : RequestIds, variant : PlainVariants, params_ok : {TRUE},
     hit : {FALSE}, arg : {0}]

\* sequences of at most n heights
RECURSIVE HeightLists(_)
HeightLists(n) ==
    IF n = 0 THEN {<<>>}
    ELSE HeightLists(n - 1)
            \cup {Append(hs, h) : hs \in HeightLists(n - 1), h \in AskedHeights}

\* the Message envelope
Message(class, origin, content) ==
    [class |-> class, origin |-> origin, content |-> content]

RequestMessages == {Message("Request", 0, req) : req \in Requests}
SyncRequestMessages ==
    {Message("SyncRequest", o, [heights |-> hs]) :
        o \in Origins, hs \in HeightLists(MaxSyncLen)}
ExecutedResultMessages == {Message("ExecutedResult", 0, [executed |-> 1])}
\* a Message of a class dispatch_msg has no arm for
OtherMessages == {Message("Response", 0, [response |-> 1])}

\* Chain::block(BlockId::Number(height)): the blocks executed so far
chain_block(height) == IF height <= current_height THEN Some(height) ELSE None

\* the protobuf form of a stored block: its height and the proof in its header
block_protobuf(height) ==
    [height |-> height,
     proof |-> ProofOf(IF height = 0 THEN USIZE_MAX ELSE height - 1)]

\* what a handler of the read path has at hand, as one record
ReadState ==
    [pub |-> <<>>, filters |-> filters, next |-> next_filter_id,
     write |-> write_chan, panic |-> FALSE, log |-> "none"]

\* a Response on "chain.rpc"
Reply(rs, request_id, code, kind, value) ==
    [rs EXCEPT !.pub = Append(rs.pub,
        [topic |-> "chain.rpc", request_id |-> request_id, code |-> code,
         body |-> [kind |-> kind, value |-> value]])]

\* Forward::reply_request; imsg is the bytes the request came in
reply_request(rs, req, imsg) ==
    LET id == req.request_id
        retrans == [rs EXCEPT !.pub = Append(rs.pub,
                        [topic |-> "executor.rpc", data |-> imsg])]
        panic == [rs EXCEPT !.panic = TRUE, !.log = "panic"]
    IN  CASE req.variant = "unset" -> panic
          [] req.variant = "block_number" ->
                Reply(rs, id, 0, "block_number",
                      IF max_store_height = U64_MAX THEN max_height
                      ELSE max_store_height)
          [] req.variant = "block_by_hash" ->
                IF req.params_ok
                THEN IF req.hit THEN Reply(rs, id, 0, "block", 0)
                     ELSE Reply(rs, id, 0, "none", 0)
                ELSE Reply(rs, id, query_error, "block", 0)
          [] req.variant = "block_by_height" ->
                IF req.params_ok
                THEN IF chain_block(req.arg) # None THEN Reply(rs, id, 0, "block", req.arg)
                     ELSE Reply(rs, id, 0, "none", 0)
                ELSE panic
          [] req.variant = "transaction" ->
                IF req.hit THEN Reply(rs, id, 0, "ts", 0)
                ELSE Reply(rs, id, 0, "none", 0)
          [] req.variant = "transaction_receipt" ->
                IF req.hit THEN Reply(rs, id, 0, "receipt", 0)
                ELSE Reply(rs, id, 0, "none", 0)
          [] req.variant = "filter" ->
                IF req.params_ok THEN Reply(rs, id, 0, "logs", 0)
                ELSE Reply(rs, id, query_error, "empty", 0)
          [] req.variant \in {"call", "transaction_count", "code"} -> retrans
          [] req.variant = "new_filter" ->
                IF req.params_ok
                THEN Reply([rs EXCEPT !.filters = rs.filters \cup {rs.next},
                                      !.next = rs.next + 1],
                           id, 0, "filter_id", rs.next)
                ELSE panic
          [] req.variant = "new_block_filter" ->
                Reply([rs EXCEPT !.filters = rs.filters \cup {rs.next},
                                 !.next = rs.next + 1],
                      id, 0, "filter_id", rs.next)
          [] req.variant = "uninstall_filter" ->
                Reply([rs EXCEPT !.filters = rs.filters \ {req.arg}],
                      id, 0, "uninstall_filter",
                      IF req.arg \in rs.filters THEN 1 ELSE 0)
          [] req.variant = "filter_changes" -> Reply(rs, id, 0, "filter_changes", 0)
          [] req.variant = "filter_logs" -> Reply(rs, id, 0, "filter_logs", 0)
          [] OTHER -> Reply([rs EXCEPT !.log = "mtach error"], id, 0, "empty", 0)

\* the blocks reply_syn_req collects for the heights asked
RECURSIVE res_vec(_)
res_vec(heights) ==
    IF heights = <<>> THEN <<>>
    ELSE LET height == Head(heights)
             pushed ==
                IF chain_block(height) # None
                THEN <<block_protobuf(height)>>
                        \o (IF height = current_height /\ current_proof # None
                            THEN <<[height |-> U64_MAX, proof |-> current_proof[1]]>>
                            ELSE <<>>)
                ELSE <<>>
         IN  pushed \o res_vec(Tail(heights))

\* reply_syn_req that broadcasts its answer
reply_syn_req_broadcast(rs, heights, origin) ==
    IF Len(res_vec(heights)) > 0
    THEN [rs EXCEPT !.pub = Append(rs.pub,
            [topic |-> "chain.blk", operate |-> "BROADCAST", origin |-> origin,
             class |-> "SyncResponse", blocks |-> res_vec(heights)])]
    ELSE rs

\* Forward::reply_syn_req
reply_syn_req(rs, heights, origin) ==
    IF Len(res_vec(heights)) > 0
    THEN [rs EXCEPT !.pub = Append(rs.pub,
            [topic |-> "chain.blk", operate |-> "SINGLE", origin |-> origin,
             class |-> "SyncResponse", blocks |-> res_vec(heights)])]
    ELSE rs

\* Forward::dispatch_msg, for the classes of this section
dispatch_msg(rs, msg_bytes) ==
    LET decoded == try_from(msg_bytes)
    IN  IF decoded = None
        THEN [rs EXCEPT !.panic = TRUE, !.log = "panic"]
        ELSE LET msg == decoded[1]
             IN  CASE msg.class = "Request" ->
                        reply_request(rs, msg.content, msg_bytes)
                   [] msg.class = "ExecutedResult" ->
                        [rs EXCEPT !.write = Append(rs.write, msg.content)]
                   [] msg.class = "SyncRequest" ->
                        reply_syn_req(rs, msg.content.heights, msg.origin)
                   [] OTHER -> [rs EXCEPT !.log = "error MsgClass"]

\* the bus reader calls dispatch_msg with msg_bytes
DispatchMsgStep(msg_bytes) ==
    LET rs == dispatch_msg(ReadState, msg_bytes)
    IN  /\ pc = "recv" /\ ~panicked
        /\ rs.next <= MaxFilters
        /\ Len(rs.write) <= MaxResults
        /\ msg_in' = Some(msg_bytes)
        /\ ctx_pub' = rs.pub
        /\ panicked' = rs.panic
        /\ filters' = rs.filters
        /\ next_filter_id' = rs.next
        /\ write_chan' = rs.write
        /\ last' = [op |-> "dispatch_msg", height |-> 0, log |-> rs.log]
        /\ cons_trace' = None

\* what no arm of this section writes
ReadFrame ==
    /\ UNCHANGED <<chain_proof_type, max_store_height, max_height, current_height,
                   block_map, current_proof, block_bodies, pc, start_height,
                   enq_hist>>
    /\ UNCHANGED <<auth_vars, batch_vars, bus_vars>>

\* dispatch_msg: MsgClass::Request
DispatchRequest ==
    /\ \E msg \in RequestMessages : DispatchMsgStep(Encode(msg))
    /\ ReadFrame

\* dispatch_msg: MsgClass::SyncRequest
DispatchSyncRequest ==
    /\ \E msg \in SyncRequestMessages : DispatchMsgStep(Encode(msg))
    /\ ReadFrame

\* dispatch_msg: MsgClass::ExecutedResult
DispatchExecutedResult ==
    /\ \E msg \in ExecutedResultMessages : DispatchMsgStep(Encode(msg))
    /\ ReadFrame

\* dispatch_msg: a class without an arm
DispatchOther ==
    /\ \E msg \in OtherMessages : DispatchMsgStep(Encode(msg))
    /\ ReadFrame

\* dispatch_msg: bytes that are no Message
DispatchGarbage ==
    /\ DispatchMsgStep(Garbage)
    /\ ReadFrame

StartHeights == {0, 5}

ChainInitAt(proof_type, start) ==
    /\ chain_proof_type = proof_type
    /\ start_height = start
    /\ max_store_height = start_height
    /\ max_height = start_height
    /\ current_height = start_height
    /\ block_map = <<>>
    /\ current_proof = None
    /\ block_bodies = 0 .. start_height
    /\ ctx_pub = <<>>
    /\ pc = "recv"
    /\ panicked = FALSE
    /\ last = [op |-> "init", height |-> 0, log |-> "none"]
    /\ cons_trace = Some(<<>>)
    /\ enq_hist = [height |-> None, synced |-> FALSE]
    /\ msg_in = None
    /\ filters = {}
    /\ next_filter_id = 0
    /\ write_chan = <<>>

ChainNext ==
    \/ DispatchBlockWithProof
    \/ DispatchSyncResponse
    \/ DealSyncBlock
    \/ DealSyncBlocksEnd
    \/ ExecutorAdvance

ChainInit == \E t \in ProofTypes, s \in StartHeights : ChainInitAt(t, s)

\* the chain forwarder with the executor beside it
Init == ChainInit /\ AuthInit /\ BatchInitAt(1, 1) /\ BusInit

Next == ChainNext

Spec == Init /\ [][Next]_vars

\* the auth thread alone
InitAuth == ChainInitAt("Tendermint", 0) /\ AuthInit /\ BatchInitAt(1, 1) /\ BusInit

NextAuth == AuthNext

SpecAuth == InitAuth /\ [][NextAuth]_vars

\* verify_valid_until_block on a Verifier at any height
InitUntil == ChainInitAt("Tendermint", 0) /\ UntilInit /\ BatchInitAt(1, 1) /\ BusInit

NextUntil == VerifyUntil

SpecUntil == InitUntil /\ [][NextUntil]_vars

\* the dispatch thread of cita-jsonrpc, with the front-end and the clock
InitBatch == ChainInitAt("Tendermint", 0) /\ AuthInit /\ BatchInit /\ BusInit

\* the auth thread, the bus and the chain's BlockTxHashesReq handler; every
\* message on the bus is delivered in the end, every request handled
InitGap ==
    ChainInitAt("Tendermint", MaxGapHeight) /\ AuthInit /\ BatchInitAt(1, 1) /\ GapBusInit

NextGap == Deliver \/ ChainReply

SpecGap ==
    /\ InitGap
    /\ [][NextGap]_vars
    /\ \A h \in GapHeights : WF_vars(DeliverStep(h)) /\ WF_vars(ChainReplyStep(h))

NextBatch == BatchNext

SpecBatch == InitBatch /\ [][NextBatch]_vars

\* the bus reader of cita-chain serving queries and whatever else the bus
\* delivers, on a chain at rest
InitRead == Init

NextRead ==
    \/ DispatchRequest
    \/ DispatchExecutedResult
    \/ DispatchOther
    \/ DispatchGarbage

SpecRead == InitRead /\ [][NextRead]_vars

\* the bus reader of cita-chain serving sync requests, while consensus
\* enqueues blocks and the executor runs them
InitSync ==
    ChainInitAt("Tendermint", 0) /\ AuthInit /\ BatchInitAt(1, 1) /\ BusInit

NextSync ==
    \/ DispatchSyncRequest
    \/ DispatchBlockWithProof
    \/ ExecutorAdvance

SpecSync == InitSync /\ [][NextSync]_vars

(***************************************************************************)
(* The dispatch thread under load that does not end                        *)
(***************************************************************************)
\* the front-end hands over one more request on a topic other than new-tx;
\* such requests carry the number 0
SubmitMore ==
    /\ Len(rx_relay) < MaxRelay
    /\ rx_relay' = Append(rx_relay, [topic |-> "jsonrpc.request", req |-> 0])
    /\ UNCHANGED <<new_tx_request_buffer, time_stamp, now, mq_pub, next_id,
                   count_per_batch, buffer_duration>>
    /\ UNCHANGED <<chain_vars, auth_vars, bus_vars, read_vars>>

\* the pubsub thread takes the oldest message off rx_pub and puts it on the bus
PubsubTake ==
    /\ mq_pub # <<>>
    /\ mq_pub' = Tail(mq_pub)
    /\ UNCHANGED <<rx_relay, new_tx_request_buffer, time_stamp, now, next_id,
                   count_per_batch, buffer_duration>>
    /\ UNCHANGED <<chain_vars, auth_vars, bus_vars, read_vars>>

\* one iteration of the dispatch loop, while at most MaxPub messages wait
\* for the pubsub thread
DispatchLoop == Len(mq_pub) < MaxPub /\ (DispatchRecv \/ DispatchIdle)

NextBatchFair == Submit \/ SubmitMore \/ DispatchLoop \/ Tick \/ PubsubTake

\* the dispatch thread and the pubsub thread keep being scheduled
SpecBatchFair ==
    /\ InitBatch
    /\ [][NextBatchFair]_vars
    /\ WF_vars(DispatchLoop)
    /\ WF_vars(PubsubTake)

(***************************************************************************)
(* Properties of the chain forwarder                                       *)
(***************************************************************************)
\* the heights of the BlockTxHashes notifications in pub
TxHashesHeights(pub) ==
    [i \in 1 .. Len(SelectSeq(pub, LAMBDA m : m.topic = "chain.txhashes")) |->
        SelectSeq(pub, LAMBDA m : m.topic = "chain.txhashes")[i].height]

\* consensus_block_enqueue took the block
Enqueued(proof_blk) == consensus_block_enqueue(ChainState, proof_blk).log = "enqueued"

\* C1: max_store_height never decreases, whatever BlockWithProof and
\* SyncResponse messages the forwarder processes.
C1_StoreHeightMonotone == [][max_store_height' >= max_store_height]_vars

\* C2 as stated: of two consensus-enqueues accepted one after the other, with
\* anything in between, the second block's height is the first's + 1.
C2_ConsecutiveEnqueues ==
    [][\A proof_blk \in ConsensusBlocks :
        (BlockWithProofStep(proof_blk) /\ Enqueued(proof_blk) /\ enq_hist.height # None)
            => proof_blk.blk.height = enq_hist.height[1] + 1]_vars

\* C2 amended: of two consensus-enqueues accepted one after the other with no
\* sync block stored between them, the second block's height is the first's + 1.
C2_ConsecutiveEnqueuesNoSync ==
    [][\A proof_blk \in ConsensusBlocks :
        (BlockWithProofStep(proof_blk) /\ Enqueued(proof_blk)
            /\ enq_hist.height # None /\ ~enq_hist.synced)
            => proof_blk.blk.height = enq_hist.height[1] + 1]_vars

\* two blocks were enqueued by consensus one after the other, no sync block between
C2_Witness ==
    /\ last.op = "BlockWithProof" /\ last.log = "enqueued"
    /\ enq_hist = [height |-> Some(last.height), synced |-> FALSE]
    /\ (last.height - 1) \in DOMAIN block_map
    /\ block_map[last.height - 1].kind = "ConsensusBlock"
    /\ block_map[last.height].kind = "ConsensusBlock"

\* C3: a BlockWithProof of height max_store_height + 1 raises max_store_height
\* by exactly 1, to the block's height; one of any other height changes neither
\* the block queue, the current proof, the stored bodies nor max_store_height
\* and sends no BlockTxHashes.
C3_EnqueueExactlyNext ==
    [][\A proof_blk \in ConsensusBlocks :
        BlockWithProofStep(proof_blk) =>
            IF proof_blk.blk.height = max_store_height + 1
            THEN /\ max_store_height' = max_store_height + 1
                 /\ max_store_height' = proof_blk.blk.height
                 /\ Enqueued(proof_blk)
            ELSE /\ UNCHANGED <<block_map, current_proof, block_bodies, max_store_height>>
                 /\ TxHashesHeights(ctx_pub') = <<>>
                 /\ ~Enqueued(proof_blk)]_vars

\* the block consensus has just enqueued was delivered again, and ignored
C3_Witness ==
    /\ cons_trace # None
    /\ Len(cons_trace[1]) = 2
    /\ cons_trace[1][1].height = cons_trace[1][2].height
    /\ cons_trace[1][1].pub # <<>>
    /\ last.log = "ignored"
    /\ max_store_height = last.height

\* the heights delivered so far, when the run is BlockWithProof messages only
TraceHeights == [i \in 1 .. Len(cons_trace[1]) |-> cons_trace[1][i].height]

\* C4 as stated (scenario S6): from max_store_height = 5, BlockWithProof 7 then
\* 6 are both rejected; 6 then 7 are both accepted, with one BlockTxHashes each.
C4_ScenarioS6 ==
    (start_height = 5 /\ cons_trace # None) =>
        /\ TraceHeights = <<7, 6>> =>
            /\ max_store_height = 5
            /\ cons_trace[1][1].pub = <<>>
            /\ cons_trace[1][2].pub = <<>>
        /\ TraceHeights = <<6, 7>> =>
            /\ max_store_height = 7
            /\ TxHashesHeights(cons_trace[1][1].pub) = <<6>>
            /\ TxHashesHeights(cons_trace[1][2].pub) = <<7>>

\* C4 amended: from max_store_height = 5, BlockWithProof 7 is rejected and the
\* 6 that follows is accepted (max_store_height = 6, one BlockTxHashes for 6);
\* 6 then 7 are both accepted, with one BlockTxHashes each.
C4_ScenarioS6Amended ==
    (start_height = 5 /\ cons_trace # None) =>
        /\ TraceHeights = <<7>> =>
            /\ max_store_height = 5
            /\ cons_trace[1][1].pub = <<>>
        /\ TraceHeights = <<7, 6>> =>
            /\ max_store_height = 6
            /\ cons_trace[1][1].pub = <<>>
            /\ TxHashesHeights(cons_trace[1][2].pub) = <<6>>
        /\ TraceHeights = <<6, 7>> =>
            /\ max_store_height = 7
            /\ TxHashesHeights(cons_trace[1][1].pub) = <<6>>
            /\ TxHashesHeights(cons_trace[1][2].pub) = <<7>>

\* BlockWithProof 7 then 6 were delivered to a chain that stood at 5
C4_Witness ==
    /\ start_height = 5
    /\ cons_trace # None
    /\ TraceHeights = <<7, 6>>

\* C10: when a BlockTxHashes notification for height h is sent, the body of h
\* is in the store and max_store_height >= h.
C10_NotifyAfterStore ==
    \A i \in DOMAIN ctx_pub :
        ctx_pub[i].topic = "chain.txhashes" =>
            /\ ctx_pub[i].body_stored
            /\ ctx_pub[i].store_height >= ctx_pub[i].height

\* a sync block has been stored and notified
C10_Witness ==
    /\ last.op = "SyncBlock"
    /\ last.log = "sync inserted"
    /\ TxHashesHeights(ctx_pub) = <<last.height>>
    /\ last.height > start_height

\* C11: max_store_height >= max_height in every reachable state, whatever the
\* interleaving of consensus-enqueue, add-sync and the executor executing
\* blocks that have been stored.
C11_StoreNotBelowExecuted == max_store_height >= max_height

\* C12: over consensus-enqueue and add-sync, an entry of the block queue stays
\* in the queue; its proof slot changes only from None to Some (so at most
\* once); a ConsensusBlock entry is never modified or replaced.
C12_EntriesWriteOnce ==
    [][\A h \in DOMAIN block_map :
        /\ h \in DOMAIN block_map'
        /\ block_map[h].proof # block_map'[h].proof =>
              (block_map[h].proof = None /\ block_map'[h].proof # None)
        /\ block_map[h].kind = "ConsensusBlock" => block_map'[h] = block_map[h]]_vars

\* the proof height add_sync_block computes for a block
ProofHeight(block) == IF block.proof.height = USIZE_MAX THEN 0 ELSE block.proof.height

\* what C15 says add-sync of `block` has done
C15_Stored(block) ==
    LET h == block.height
        ph == ProofHeight(block)
    IN  /\ h \in block_bodies'
        /\ max_store_height' = h
        /\ TxHashesHeights(ctx_pub') = <<h>>
        /\ DOMAIN block_map' = DOMAIN block_map \cup {h}
        /\ block_map'[h] = [kind |-> "SyncBlock", block |-> h, proof |-> None]
        /\ \A k \in DOMAIN block_map \ {h} :
              block_map'[k] =
                 IF k = ph /\ block_map[k].kind = "SyncBlock" /\ block_map[k].proof = None
                 THEN [block_map[k] EXCEPT !.proof = Some(block.proof)]
                 ELSE block_map[k]

\* add_sync_block is called with a regular block whose proof height is
\* max_height or max_store_height
C15_Case(block) ==
    /\ pc = "deal_sync_blocks"
    /\ last'.op = "SyncBlock" /\ last'.height = block.height
    /\ block.height # U64_MAX
    /\ ProofHeight(block) = max_height \/ ProofHeight(block) = max_store_height
    /\ deal_sync_blocks_turn(block) = "add"
    /\ DealSyncBlockStep(block)

C23_Case(block) ==
    /\ pc = "deal_sync_blocks"
    /\ last'.op = "SyncBlock" /\ last'.height = U64_MAX
    /\ block.height = U64_MAX
    /\ DealSyncBlockStep(block)

\* the entry at h had an empty proof slot, which now holds the block's proof
C23_SlotFilled(block, h) ==
    /\ h = ProofHeight(block)
    /\ h > current_height
    /\ block_map[h].kind = "SyncBlock"
    /\ block_map[h].proof = None
    /\ block_map'[h] = [block_map[h] EXCEPT !.proof = Some(block.proof)]

\* C23: add-sync of a proof-only pseudo block (height HMAX) only ever fills
\* the proof slot of an existing SyncBlock(_, None) entry at proof_height, and
\* only when proof_height is above the executed height; it inserts no entry,
\* leaves max_store_height and the stored bodies alone and sends no
\* BlockTxHashes.
C23_ProofOnlyFrame ==
    [][\A block \in SyncBlocks :
        C23_Case(block) =>
            /\ DOMAIN block_map' = DOMAIN block_map
            /\ \A h \in DOMAIN block_map :
                  block_map'[h] # block_map[h] => C23_SlotFilled(block, h)
            /\ max_store_height' = max_store_height
            /\ block_bodies' = block_bodies
            /\ ctx_pub' = <<>>]_vars

\* a pseudo block has just filled the slot of the newest sync block, which no
\* later block could have filled
C23_Witness ==
    /\ last = [op |-> "SyncBlock", height |-> U64_MAX, log |-> "proof only"]
    /\ max_store_height > current_height
    /\ max_store_height \in DOMAIN block_map
    /\ block_map[max_store_height] =
          [kind |-> "SyncBlock", block |-> max_store_height,
           proof |-> Some(ProofOf(max_store_height))]
    /\ (max_store_height + 1) \notin DOMAIN block_map

\* the step is a turn of deal_sync_blocks for a block of this height
C24_Turn(block) ==
    /\ pc = "deal_sync_blocks"
    /\ last'.op = "SyncBlock" /\ last'.height = block.height

\* the forwarder runs on and nothing it keeps has changed
C24_Dropped ==
    /\ ~panicked'
    /\ block_map' = block_map
    /\ max_store_height' = max_store_height
    /\ block_bodies' = block_bodies
    /\ ctx_pub' = <<>>

\* a regular block whose proof height is neither max_height nor max_store_height
C24_NotContinuous(block) ==
    /\ block.height # U64_MAX
    /\ ProofHeight(block) # max_height
    /\ ProofHeight(block) # max_store_height

Retained(hash) == \E k \in DOMAIN hashes : hash \in hashes[k]

\* C5: the window retains at most BLOCKLIMIT heights, each within
\* [height_low, height_latest].
C5_WindowBounded ==
    /\ Cardinality(DOMAIN hashes) <= BLOCKLIMIT
    /\ height_latest = None => DOMAIN hashes = {}
    /\ height_latest # None =>
        \A k \in DOMAIN hashes : height_low[1] <= k /\ k <= height_latest[1]

\* the window is full and has slid: heights below height_low were evicted
C5_Witness ==
    /\ height_latest # None
    /\ height_low[1] >= 2
    /\ Cardinality(DOMAIN hashes) = BLOCKLIMIT
    /\ auth_last.op = "update_hashes" /\ auth_last.height = height_latest[1]

\* C6: when height_latest is set, inited is true exactly when the number of
\* retained heights is height_latest - height_low + 1.
C6_InitedIffFull ==
    height_latest # None =>
        (inited <=> Cardinality(DOMAIN hashes) = height_latest[1] - height_low[1] + 1)

\* after a cold start, the window lacks one height and is not inited
C6_Witness ==
    /\ height_latest # None
    /\ height_low[1] >= 1
    /\ ~inited
    /\ Cardinality(DOMAIN hashes) = height_latest[1] - height_low[1]
    /\ auth_last.op = "update_hashes"
    /\ auth_last.height < height_latest[1]

\* C7: once inited is true it stays true.
C7_InitedStable == [][inited => inited']_vars

\* an inited window has seen a jump ahead, a height below it and a forward step
C7_Witness ==
    /\ inited
    /\ height_low # None /\ height_low[1] >= 1
    /\ tx_pub # <<>>
    /\ auth_last.op = "update_hashes"

\* C8: check_hash_exist answers false only for an inited window that retains
\* the hash in no set, and verfiy_tx answers OK only then.
C8_NoFalseNegative ==
    /\ \A hash \in TxHashes :
        ~check_hash_exist(VerifierState, hash) => (inited /\ ~Retained(hash))
    /\ (resp # None /\ resp[1].ret = "OK") => (inited /\ ~Retained(resp[1].tx_hash))

\* a request was answered OK by a window that retains another hash
C8_Witness ==
    /\ resp # None
    /\ resp[1].ret = "OK"
    /\ \E hash \in TxHashes : Retained(hash)

\* the outcome C9 gives a request
C9_Outcome(req) ==
    CASE req.nonce_len > 128 -> "InvalidNonce"
      [] req.nonce_len <= 128 /\ inited /\ Retained(req.tx_hash) -> "Dup"
      [] req.nonce_len <= 128 /\ ~inited -> "NotReady"
      [] OTHER ->
           IF \/ ~req.signature.len_ok
              \/ req.crypto # "SECP"
              \/ Recover(req.signature) = None
           THEN "BadSig"
           ELSE IF req.signer # <<>> /\ req.signer # Recover(req.signature)
           THEN "BadSig"
           ELSE "OK"

\* C9: verfiy_tx leaves the window as it is and answers with the first outcome
\* that applies: InvalidNonce, Dup or NotReady, BadSig, else OK with the
\* recovered signer.
C9_VerifyOutcome ==
    [][\A req \in {r \in VerifyTxReqs : resp' # None /\ r.tx_hash = resp'[1].tx_hash} :
        VerifyStep(req) =>
            /\ UNCHANGED <<inited, height_latest, height_low, hashes>>
            /\ resp'[1].tx_hash = req.tx_hash
            /\ resp'[1].ret = C9_Outcome(req)
            /\ resp'[1].ret = "OK" => resp'[1].signer = Recover(req.signature)
            /\ resp'[1].ret # "OK" => resp'[1].signer = <<>>]_vars

\* a request for a retained hash got past the nonce check and was answered Dup
C9_Witness ==
    /\ resp # None
    /\ resp[1].ret = "Dup"
    /\ Retained(resp[1].tx_hash)

\* C14 as stated: an entry of the window keeps its set until it is evicted; no
\* update_hashes call changes it, and it goes only when height_low passes it.
C14_EntryNeverMutated ==
    [][\A k \in DOMAIN hashes :
        IF k \in DOMAIN hashes'
        THEN hashes'[k] = hashes[k]
        ELSE height_low'[1] > k]_vars

\* C14 amended: an entry of the window keeps its set until it is evicted or
\* until update_hashes is called again with its height, inside the window,
\* which replaces the set by that call's set; a call with another height and
\* verfiy_tx leave it alone, and it goes only when height_low passes it.
C14_EntryKeptOrReplaced ==
    [][/\ auth_last'.op # "update_hashes" => hashes' = hashes
       /\ \A set \in HashSets :
            UpdateHashesStep(auth_last'.height, set) =>
                \A k \in DOMAIN hashes :
                    IF k \in DOMAIN hashes'
                    THEN \/ hashes'[k] = hashes[k]
                         \/ /\ k = auth_last'.height
                            /\ height_low[1] <= k /\ k <= height_latest[1]
                            /\ hashes'[k] = set
                    ELSE height_low'[1] > k]_vars

\* after the window has slid, a second update_hashes for a retained height has
\* replaced the set the first one stored
C14_Witness ==
    /\ auth_last.op = "update_hashes"
    /\ auth_last.found # None
    /\ auth_last.height \in DOMAIN hashes
    /\ auth_last.found[1] # hashes[auth_last.height]
    /\ height_low[1] >= 1

\* max(0, h - L + 1)
LowFor(h) == IF h - BLOCKLIMIT + 1 > 0 THEN h - BLOCKLIMIT + 1 ELSE 0

\* pub is one BlockTxHashesReq for each height of from .. to - 1, and no other
RequestsFor(pub, from, to) ==
    /\ Len(pub) = (IF to > from THEN to - from ELSE 0)
    /\ \A i \in DOMAIN pub :
          pub[i] = [topic |-> "auth.blk_tx_hashs_req", height |-> from + i - 1]

\* C16: the first update_hashes(h, set) on a new window sets latest = h and
\* low = max(0, h - L + 1), asks for each height of [low, h) and for no other
\* (for none when h = 0), inserts (h, set), and leaves inited true exactly
\* when low = h.
C16_FirstCall ==
    [][\A set \in HashSets :
        (/\ UpdateHashesStep(auth_last'.height, set)
         /\ height_latest = None /\ height_low = None /\ hashes = <<>> /\ ~inited) =>
            LET h == auth_last'.height
            IN  /\ height_latest' = Some(h)
                /\ height_low' = Some(LowFor(h))
                /\ RequestsFor(tx_pub', LowFor(h), h)
                /\ h = 0 => tx_pub' = <<>>
                /\ hashes' = (h :> set)
                /\ inited' <=> (LowFor(h) = h)]_vars

\* a new window has had its first call above the window width: it asked for the
\* heights below and is not inited
C16_Witness ==
    /\ auth_last.op = "update_hashes" /\ auth_last.found = None
    /\ height_latest = Some(auth_last.height)
    /\ DOMAIN hashes = {auth_last.height}
    /\ height_low[1] >= 1
    /\ Len(tx_pub) = BLOCKLIMIT - 1
    /\ ~inited

\* C17: update_hashes(h, set) with h = latest + 1 sets latest = h and
\* low = max(0, h - L + 1), removes every entry below the new low, inserts
\* (h, set) and asks for nothing; from latest = L, low = 1 the step to L + 1
\* gives low = 2 and no entry for height 1.
C17_ForwardStep ==
    [][\A set \in HashSets :
        (/\ UpdateHashesStep(auth_last'.height, set)
         /\ height_latest # None
         /\ auth_last'.height = height_latest[1] + 1) =>
            LET h == auth_last'.height
            IN  /\ height_latest' = Some(h)
                /\ height_low' = Some(LowFor(h))
                /\ DOMAIN hashes' = {k \in DOMAIN hashes : k >= LowFor(h)} \cup {h}
                /\ hashes'[h] = set
                /\ \A k \in DOMAIN hashes' \ {h} : hashes'[k] = hashes[k]
                /\ tx_pub' = <<>>
                /\ (height_latest[1] = BLOCKLIMIT /\ height_low[1] = 1) =>
                      (/\ height_latest' = Some(BLOCKLIMIT + 1)
                       /\ height_low' = Some(2)
                       /\ 1 \notin DOMAIN hashes')]_vars

\* the window [1, L] has taken the forward step to L + 1
C17_Witness ==
    /\ auth_last.op = "update_hashes" /\ auth_last.found = None
    /\ height_latest = Some(BLOCKLIMIT + 1)
    /\ auth_last.height = BLOCKLIMIT + 1
    /\ height_low = Some(2)
    /\ DOMAIN hashes = 2 .. (BLOCKLIMIT + 1)
    /\ inited

\* C18: update_hashes(h, set) with h > latest + 1 asks for each height of
\* [latest + 1, h + 1) and leaves inited, latest, low and the entries as they
\* are; with h < low it changes nothing and asks for nothing.
C18_JumpAheadAndBelow ==
    [][\A set \in HashSets :
        (UpdateHashesStep(auth_last'.height, set) /\ height_latest # None) =>
            LET h == auth_last'.height
            IN  /\ h > height_latest[1] + 1 =>
                    /\ RequestsFor(tx_pub', height_latest[1] + 1, h + 1)
                    /\ UNCHANGED <<inited, height_latest, height_low, hashes>>
                /\ h < height_low[1] =>
                    /\ tx_pub' = <<>>
                    /\ UNCHANGED <<inited, height_latest, height_low, hashes>>]_vars

\* a window that has slid has seen an update two or more heights ahead
C18_Witness ==
    /\ auth_last.op = "update_hashes"
    /\ height_latest # None
    /\ auth_last.height > height_latest[1] + 1
    /\ Len(tx_pub) = auth_last.height - height_latest[1]
    /\ height_low[1] >= 1

\* C20: verify_valid_until_block(v) returns true exactly when latest is set and
\* latest < v <= latest + L, for every latest and v that fit 64 bits, also
\* where latest + L does not fit.
C20_UntilBlock ==
    until_result # None =>
        /\ ~until_result[1].panic
        /\ until_result[1].result <=>
              /\ height_latest # None
              /\ height_latest[1] < until_result[1].valid_until_block
              /\ until_result[1].valid_until_block <= height_latest[1] + BLOCKLIMIT

\* the last update_hashes was for height h, ahead of latest + 1
JumpedAhead(h) ==
    /\ auth_last.op = "update_hashes"
    /\ auth_last.height = h
    /\ height_latest # None
    /\ h > height_latest[1] + 1

\* the window has reached h and holds the chain's hash set of h
CaughtUp(h) ==
    /\ height_latest # None
    /\ height_latest[1] >= h
    /\ h \in DOMAIN hashes
    /\ Some(hashes[h]) = transaction_hashes(block_bodies, h)

\* C19: after an update_hashes ahead of latest + 1, at height h, the window
\* reaches latest >= h with the hash set of h inserted, when the chain answers
\* every request for a stored height and every message is delivered in the end.
C19_GapRecovery == \A h \in GapHeights : JumpedAhead(h) ~> CaughtUp(h)

\* an update was dropped for being ahead of the window, and the replies to its
\* requests have brought the window up to its height
C19_Witness ==
    /\ auth_last.op = "update_hashes"
    /\ auth_last.height = MaxGapHeight
    /\ MaxGapHeight \in auth_last.dropped
    /\ CaughtUp(MaxGapHeight)
    /\ height_latest = Some(MaxGapHeight)

(***************************************************************************)
(* Properties of the new-tx batcher                                        *)
(***************************************************************************)
\* the requests of the messages of pub that were sent on `topic`, in order
RECURSIVE ReqsOn(_, _)
ReqsOn(pub, topic) ==
    IF pub = <<>> THEN <<>>
    ELSE (IF Head(pub).topic = topic THEN Head(pub).reqs ELSE <<>>)
            \o ReqsOn(Tail(pub), topic)

\* how often request id occurs in the messages of pub
Published(pub, id) ==
    Cardinality({ij \in (DOMAIN pub) \X (1 .. MaxRequests + 1) :
                    /\ ij[2] \in DOMAIN pub[ij[1]].reqs
                    /\ pub[ij[1]].reqs[ij[2]] = id})

\* the request is waiting in the relay channel or in the buffer
Pending(id) ==
    \/ \E i \in DOMAIN rx_relay : rx_relay[i].req = id
    \/ \E i \in DOMAIN new_tx_request_buffer : new_tx_request_buffer[i] = id

\* s is in the order the requests were handed over (their numbers increase)
InSubmitOrder(s) == \A i, j \in DOMAIN s : i < j => s[i] < s[j]

\* a request handed over is published once or still waiting, never both; no
\* new-tx request goes out on a topic of its own; batches and buffer are in order
C13_OnceAndOrdered ==
    /\ \A id \in 1 .. (next_id - 1) :
          IF Pending(id) THEN Published(mq_pub, id) = 0 ELSE Published(mq_pub, id) = 1
    /\ ReqsOn(mq_pub, TOPIC_NEW_TX) = <<>>
    /\ InSubmitOrder(ReqsOn(mq_pub, TOPIC_NEW_TX_BATCH) \o new_tx_request_buffer)

\* what receiving the head of the relay channel publishes
C13_RecvStep ==
    DispatchRecv =>
        LET topic == Head(rx_relay).topic
            req == Head(rx_relay).req
        IN  IF topic # TOPIC_NEW_TX
            THEN /\ mq_pub' = Append(mq_pub, [topic |-> topic, reqs |-> <<req>>])
                 /\ UNCHANGED <<new_tx_request_buffer, time_stamp>>
            ELSE \/ /\ mq_pub' = mq_pub
                    /\ new_tx_request_buffer' = Append(new_tx_request_buffer, req)
                 \/ /\ mq_pub' = Append(mq_pub,
                            [topic |-> TOPIC_NEW_TX_BATCH,
                             reqs |-> Append(new_tx_request_buffer, req)])
                    /\ new_tx_request_buffer' = <<>>

\* C13: every request handed to the batcher is published exactly once: one on
\* a topic other than new-tx at once, alone, on its own topic, with buffer and
\* flush timestamp unchanged; a new-tx request inside one BatchRequest on the
\* batch topic; new-tx requests keep their submission order within a batch and
\* across batches.
C13_PublishedExactlyOnce == [](C13_OnceAndOrdered) /\ [][C13_RecvStep]_vars

\* two batches have gone out, the first with two requests
C13_Witness ==
    /\ Len(mq_pub) = 2
    /\ mq_pub[1].topic = TOPIC_NEW_TX_BATCH /\ Len(mq_pub[1].reqs) = 2
    /\ mq_pub[2].topic = TOPIC_NEW_TX_BATCH /\ Len(mq_pub[2].reqs) = 1
    /\ rx_relay = <<>> /\ new_tx_request_buffer = <<>>


\* a step of the dispatch loop that receives a new-tx request
RecvNewTx == DispatchRecv /\ Head(rx_relay).topic = TOPIC_NEW_TX

\* the buffer, with the request received, overflows or the time since the
\* last flush is more than buffer_duration
C21_FlushDue ==
    \/ Len(new_tx_request_buffer) + 1 > count_per_batch
    \/ now - time_stamp > buffer_duration

\* C21: on submit of a new-tx request the batcher appends it and flushes
\* exactly when the buffer then holds more than count_per_batch requests or
\* the time elapsed since the last flush exceeds buffer_duration, whatever
\* the elapsed time (one second or more included); otherwise nothing is
\* published and the request stays buffered.
C21_FlushExactlyWhen ==
    [][RecvNewTx =>
        IF C21_FlushDue
        THEN /\ mq_pub' = Append(mq_pub,
                    [topic |-> TOPIC_NEW_TX_BATCH,
                     reqs |-> Append(new_tx_request_buffer, Head(rx_relay).req)])
             /\ new_tx_request_buffer' = <<>>
        ELSE /\ mq_pub' = mq_pub
             /\ new_tx_request_buffer' =
                    Append(new_tx_request_buffer, Head(rx_relay).req)]_vars

\* the sizes of the batches that went out and of the buffer
C29_Sizes ==
    /\ \A i \in DOMAIN mq_pub :
          mq_pub[i].topic = TOPIC_NEW_TX_BATCH =>
              /\ Len(mq_pub[i].reqs) >= 1
              /\ Len(mq_pub[i].reqs) <= count_per_batch + 1
    /\ Len(new_tx_request_buffer) <= count_per_batch

\* a step that sends a BatchRequest leaves the buffer empty and the flush
\* timestamp at the time of the flush
C29_FlushStep ==
    (/\ Len(mq_pub') > Len(mq_pub)
     /\ mq_pub'[Len(mq_pub')].topic = TOPIC_NEW_TX_BATCH)
        => /\ new_tx_request_buffer' = <<>>
           /\ time_stamp' = now

\* C29: every BatchRequest published holds at least 1 and at most
\* count_per_batch + 1 new-tx requests; after every flush the buffer is empty
\* and the flush timestamp is reset; after every submit that returns, the
\* buffer holds at most count_per_batch requests.
C29_BatchBounds == [](C29_Sizes) /\ [][C29_FlushStep]_vars

\* a batch of count_per_batch + 1 requests went out on overflow, later than
\* the start of the thread, and one of a single request before it
C29_Witness ==
    /\ count_per_batch = 1
    /\ Len(mq_pub) = 2
    /\ mq_pub[1].topic = TOPIC_NEW_TX_BATCH /\ Len(mq_pub[1].reqs) = 1
    /\ mq_pub[2].topic = TOPIC_NEW_TX_BATCH /\ Len(mq_pub[2].reqs) = 2
    /\ new_tx_request_buffer = <<>>
    /\ time_stamp = now /\ now > 1

\* the new-tx request is in the batcher's buffer
InBuffer(id) == \E i \in DOMAIN new_tx_request_buffer : new_tx_request_buffer[i] = id

\* the new-tx request is in a BatchRequest handed to the pubsub thread
InBatch(id) ==
    \E i \in DOMAIN mq_pub :
        /\ mq_pub[i].topic = TOPIC_NEW_TX_BATCH
        /\ \E j \in DOMAIN mq_pub[i].reqs : mq_pub[i].reqs[j] = id

\* C22 (as stated): every new-tx request accepted into the batcher's buffer
\* is eventually published in a batch, as long as the batcher thread keeps
\* being scheduled.
C22_EventuallyPublished ==
    \A id \in 1 .. MaxRequests : InBuffer(id) ~> InBatch(id)

\* C22 (amended): every new-tx request accepted into the batcher's buffer is
\* eventually published in a batch, as long as the batcher thread keeps being
\* scheduled and the requests on other topics stop arriving at some point.
C22_EventuallyPublishedOnceQuiet ==
    (<>[][~SubmitMore]_vars) => C22_EventuallyPublished

\* a request is in a batch of its own although neither the count nor the
\* timer asked for a flush: the idle branch sent it
C22_Witness ==
    /\ count_per_batch = 2
    /\ rx_relay = <<>> /\ new_tx_request_buffer = <<>>
    /\ mq_pub = <<[topic |-> TOPIC_NEW_TX_BATCH, reqs |-> <<2>>]>>
    /\ next_id = 3
    /\ now = 0

(***************************************************************************)
(* Properties of dispatch_msg: sync requests and the read path             *)
(***************************************************************************)
\* the heights of `heights` that the chain has a block for, in request order
PresentHeights(heights) == SelectSeq(heights, LAMBDA h : chain_block(h) # None)

\* how often the height executed last is asked for
CurrentAsked(heights) ==
    Cardinality({i \in DOMAIN heights : heights[i] = current_height})

\* the regular blocks of a response, and its proof-only pseudo blocks
RegularBlocks(blocks) == SelectSeq(blocks, LAMBDA b : b.height # U64_MAX)
PseudoBlocks(blocks) == SelectSeq(blocks, LAMBDA b : b.height = U64_MAX)

\* the step dispatches this SyncRequest
C25_Step(msg) ==
    /\ pc = "recv"
    /\ msg_in' = Some(Encode(msg))
    /\ DispatchMsgStep(Encode(msg))

\* what is sent for the SyncRequest: nothing if no height asked is present,
\* else one SyncResponse to the origin alone with the present blocks in
\* request order and n pseudo blocks that carry the current proof
C25_Sent(msg, n) ==
    IF PresentHeights(msg.content.heights) = <<>>
    THEN ctx_pub' = <<>>
    ELSE /\ Len(ctx_pub') = 1
         /\ ctx_pub'[1].topic = "chain.blk"
         /\ ctx_pub'[1].class = "SyncResponse"
         /\ ctx_pub'[1].operate = "SINGLE"
         /\ ctx_pub'[1].origin = msg.origin
         /\ LET regular == RegularBlocks(ctx_pub'[1].blocks)
                pseudo == PseudoBlocks(ctx_pub'[1].blocks)
            IN  /\ [i \in DOMAIN regular |-> regular[i].height]
                      = PresentHeights(msg.content.heights)
                /\ Len(pseudo) = n
                /\ \A i \in DOMAIN pseudo : pseudo[i].proof = current_proof[1]

\* C25 (as stated): for a SyncRequest from origin o the forwarder sends
\* exactly one SyncResponse, point-to-point to o, iff at least one requested
\* height is present in the chain; it holds the present blocks in request
\* order plus one proof-only pseudo block (height HMAX, the current proof)
\* when a requested height equals the executed height and a current proof
\* exists; when no requested height is present nothing is sent.
C25_SyncResponse ==
    [][\A msg \in SyncRequestMessages :
        C25_Step(msg) =>
            C25_Sent(msg, IF CurrentAsked(msg.content.heights) > 0 /\ current_proof # None
                          THEN 1 ELSE 0)]_vars

\* C25 (amended): the same, with one pseudo block for each time the executed
\* height is asked for.
C25_SyncResponsePerOccurrence ==
    [][\A msg \in SyncRequestMessages :
        C25_Step(msg) =>
            C25_Sent(msg, IF current_proof # None
                          THEN CurrentAsked(msg.content.heights) ELSE 0)]_vars

\* a request for the executed height and the one after it has been answered
\* with the block and the pseudo block that carries the current proof
C25_Witness ==
    /\ current_height > 0
    /\ current_proof # None
    /\ msg_in = Some(Encode(Message("SyncRequest", 2,
                    [heights |-> <<current_height, current_height + 1>>])))
    /\ Len(ctx_pub) = 1
    /\ ctx_pub[1].operate = "SINGLE" /\ ctx_pub[1].origin = 2
    /\ ctx_pub[1].blocks =
          <<block_protobuf(current_height),
            [height |-> U64_MAX, proof |-> current_proof[1]]>>

\* the step dispatches this Request
ReadStep(msg) ==
    /\ pc = "recv"
    /\ msg_in' = Some(Encode(msg))
    /\ DispatchMsgStep(Encode(msg))

\* the variants that are handed on to the executor
ExecutorVariants == {"call", "transaction_count", "code"}

\* C26: for every read Request exactly one message is published: for call,
\* transaction_count and code the original raw bytes go to the executor
\* topic and no reply is made; for every other variant one reply with the
\* request's id goes to the chain-rpc topic; never both, never neither.
C26_ExactlyOneMessage ==
    [][\A msg \in RequestMessages :
        ReadStep(msg) =>
            /\ Len(ctx_pub') = 1
            /\ IF msg.content.variant \in ExecutorVariants
               THEN ctx_pub'[1] = [topic |-> "executor.rpc", data |-> Encode(msg)]
               ELSE /\ ctx_pub'[1].topic = "chain.rpc"
                    /\ ctx_pub'[1].request_id = msg.content.request_id]_vars

\* the step dispatches bytes that are no Message, or a Message of a class
\* dispatch_msg has no arm for
C27_Step ==
    /\ pc = "recv"
    /\ \/ DispatchMsgStep(Garbage)
       \/ \E msg \in OtherMessages : DispatchMsgStep(Encode(msg))

\* C27: no bus message terminates the forwarder's dispatch: bytes that fail to
\* decode as a Message and messages of an unhandled variant are logged and
\* dropped, with all chain state unchanged and nothing published.
C27_UndecodableDropped ==
    [][C27_Step =>
        /\ ~panicked'
        /\ ctx_pub' = <<>>
        /\ UNCHANGED <<chain_proof_type, max_store_height, max_height,
                       current_height, block_map, current_proof, block_bodies,
                       filters, next_filter_id, write_chan>>]_vars

\* C28: a read request whose parameters fail to decode is answered with a
\* reply that carries the query_error code, for block_by_height as for
\* block_by_hash; the forwarder goes on and the request is answered.
C28_DecodeErrorAnswered ==
    [][\A msg \in RequestMessages :
        (/\ msg.content.variant \in DecodedVariants
         /\ ~msg.content.params_ok
         /\ ReadStep(msg)) =>
            /\ ~panicked'
            /\ Len(ctx_pub') = 1
            /\ ctx_pub'[1].topic = "chain.rpc"
            /\ ctx_pub'[1].request_id = msg.content.request_id
            /\ ctx_pub'[1].code = query_error]_vars

=============================================================================
